---- MODULE Spec2Model ----
(***************************************************************************)
(* The LEDswarm UWB frame: its data model (frame/header.rs,                *)
(* frame/payload), the fluent builder of Frame and the wire codec          *)
(* (frame/mod.rs): "LEDswarm" ++ bincode(Frame) ++ ranging_bytes.          *)
(*                                                                         *)
(* Bytes are integers 0..255, byte strings and Rust Strings are sequences  *)
(* of bytes (a String holds valid UTF-8), an f32 is its four little-endian *)
(* bytes, Option<u16> is <<>> (None) or <<v>> (Some(v)).                   *)
(***************************************************************************)
EXTENDS Integers, Sequences, FiniteSets, TLC

VARIABLES frame,    \* the Frame value in the caller's hands
          call,     \* the builder call that produced it: [op, arg]
          last,     \* per mutator, the argument of its last call (<<>>: never called)
          buf,      \* the byte buffer on the wire
          tamper,   \* what happened to buf after encoding
          result,   \* what Frame::try_from(buf) returned
          pc        \* "built", "wire" or "decoded"

vars == <<frame, call, last, buf, tamper, result, pc>>

(***************************************************************************)
(* Bounds of the model                                                     *)
(***************************************************************************)
\* Length of the generated timestamp, message id and name strings.
StrLen == 2
\* Longest prefix taken of a foreign (not encoder-made) buffer.
MaxForeignLen == 13

(***************************************************************************)
(* Data model                                                              *)
(***************************************************************************)
U16_MAX == 65535

MkStr(c) == [i \in 1..StrLen |-> c]

\* chrono's RFC3339 text and nanoid's identifier, cut to StrLen characters.
Timestamps == {MkStr(50), MkStr(57)}
MessageIds == {MkStr(65), MkStr(122)}
\* Free strings: ASCII, and one two-byte UTF-8 character (U+00E9).
Names == {MkStr(71), <<195, 169>>}

\* f32 bit patterns: 0.5 and a NaN.
F32Vals == {<<0, 0, 0, 63>>, <<0, 0, 192, 127>>}

LifetimeVals == {2, 7}
SenderVals   == {U16_MAX, 7}
TargetVals   == {0, 300}
TickVals     == {0, 42}
UniverseVals == {0, 1}
RangingVals  == {<<0, 0, 0, 0>>, <<1, 2, 3, 4>>, <<255, 0, 128, 9>>}

\* A message of any family: variant name, integer field, byte-string field.
Msg(v, n, s) == [v |-> v, n |-> n, s |-> s]

ControllerMessage ==
    {Msg("JoinRequest", 0, <<>>)} \cup {Msg("JoinResponse", n, <<>>) : n \in {1, 513}}

ProtocolMessage ==
    {Msg("Acknowledged", 0, s) : s \in MessageIds} \cup {Msg("Tick", n, <<>>) : n \in {258}}

ClientMessage ==
    {Msg("SetBrightness", 0, f) : f \in F32Vals}
        \cup {Msg("StartRound", 0, s) : s \in Names}
        \cup {Msg("EndRound", 0, <<>>)}

InternalMessage ==
    {Msg("AccelerometerJoltDelta", 0, f) : f \in F32Vals}
        \cup {Msg("AccelerometerRaw", 0, f \o f \o f) : f \in {<<0, 0, 0, 63>>}}

Payload(tag, msg) == [tag |-> tag, msg |-> msg]

Empty == Payload("Empty", Msg("", 0, <<>>))

\* The variants enum FramePayload declares (InternalMessage is commented out).
FramePayload ==
    {Payload("ControllerMessage", m) : m \in ControllerMessage}
        \cup {Payload("ProtocolMessage", m) : m \in ProtocolMessage}
        \cup {Payload("ClientMessage", m) : m \in ClientMessage}
        \cup {Empty}

(***************************************************************************)
(* FrameHeader::new and the builder of Frame                               *)
(***************************************************************************)
HeaderNew(ts, id) ==
    [timestamp                |-> ts,
     lifetime                 |-> 2,
     message_id               |-> id,
     sender_id                |-> U16_MAX,
     requires_acknowledgement |-> FALSE,
     target_id                |-> <<>>,
     current_tick             |-> 0,
     universe                 |-> 0,
     ranging_bytes            |-> <<0, 0, 0, 0>>]

new(ts, id) == [header |-> HeaderNew(ts, id), payload |-> Empty]

message(f, msg)          == [f EXCEPT !.payload = Payload("ControllerMessage", msg)]
protocol_message(f, msg) == [f EXCEPT !.payload = Payload("ProtocolMessage", msg)]
internal_message(f, msg) == [f EXCEPT !.payload = Payload("InternalMessage", msg)]
client_message(f, msg)   == [f EXCEPT !.payload = Payload("ClientMessage", msg)]

lifetime(f, n)  == [f EXCEPT !.header.lifetime = n]

\* Mutant: the sender id is written to the target field.
sender_id_as_target(f, n) == [f EXCEPT !.header.target_id = <<n>>]

sender_id(f, n) == [f EXCEPT !.header.sender_id = n]
target_id(f, n) == [f EXCEPT !.header.target_id = <<n>>]
tick(f, n)      == [f EXCEPT !.header.current_tick = n]
universe(f, n)  == [f EXCEPT !.header.universe = n]

require_confirmation(f) == [f EXCEPT !.header.requires_acknowledgement = TRUE]

\* Mutant: the request for confirmation is left out.
join_request_unconfirmed(ts, id, t) ==
    tick(target_id(message(new(ts, id), Msg("JoinRequest", 0, <<>>)), 0), t)

join_request(ts, id, t) ==
    tick(target_id(require_confirmation(message(new(ts, id), Msg("JoinRequest", 0, <<>>))), 0), t)

(***************************************************************************)
(* Builder calls as steps                                                  *)
(***************************************************************************)
NoMsg == Msg("", 0, <<>>)

Call(op, n, msg) == [op |-> op, n |-> n, msg |-> msg]

NeverCalled ==
    [lifetime |-> <<>>, sender_id |-> <<>>, target_id |-> <<>>, tick |-> <<>>,
     universe |-> <<>>, require_confirmation |-> FALSE, payload |-> <<>>]

NoResult == [kind |-> "None", frame |-> <<>>, err |-> "", text |-> <<>>]

CodecIdle == buf = <<>> /\ tamper = "none" /\ result = NoResult /\ pc = "built"

Init ==
    /\ \E ts \in Timestamps, id \in MessageIds : frame = new(ts, id)
    /\ call = Call("new", 0, NoMsg)
    /\ last = NeverCalled
    /\ CodecIdle

New ==
    /\ \E ts \in Timestamps, id \in MessageIds : frame' = new(ts, id)
    /\ call' = Call("new", 0, NoMsg)
    /\ last' = NeverCalled
    /\ UNCHANGED <<buf, tamper, result, pc>>

JoinRequest ==
    \E ts \in Timestamps, id \in MessageIds, t \in TickVals :
        /\ frame' = join_request(ts, id, t)
        /\ call' = Call("join_request", t, NoMsg)
        /\ last' = [NeverCalled EXCEPT
                        !.payload = <<Payload("ControllerMessage", Msg("JoinRequest", 0, <<>>))>>,
                        !.require_confirmation = TRUE,
                        !.target_id = <<0>>,
                        !.tick = <<t>>]
        /\ UNCHANGED <<buf, tamper, result, pc>>

SetMessage ==
    \E m \in ControllerMessage :
        /\ frame' = message(frame, m)
        /\ call' = Call("message", 0, m)
        /\ last' = [last EXCEPT !.payload = <<Payload("ControllerMessage", m)>>]
        /\ UNCHANGED <<buf, tamper, result, pc>>

SetProtocolMessage ==
    \E m \in ProtocolMessage :
        /\ frame' = protocol_message(frame, m)
        /\ call' = Call("protocol_message", 0, m)
        /\ last' = [last EXCEPT !.payload = <<Payload("ProtocolMessage", m)>>]
        /\ UNCHANGED <<buf, tamper, result, pc>>

SetInternalMessage ==
    \E m \in InternalMessage :
        /\ frame' = internal_message(frame, m)
        /\ call' = Call("internal_message", 0, m)
        /\ last' = [last EXCEPT !.payload = <<Payload("InternalMessage", m)>>]
        /\ UNCHANGED <<buf, tamper, result, pc>>

SetClientMessage ==
    \E m \in ClientMessage :
        /\ frame' = client_message(frame, m)
        /\ call' = Call("client_message", 0, m)
        /\ last' = [last EXCEPT !.payload = <<Payload("ClientMessage", m)>>]
        /\ UNCHANGED <<buf, tamper, result, pc>>

SetLifetime ==
    \E n \in LifetimeVals :
        /\ frame' = lifetime(frame, n)
        /\ call' = Call("lifetime", n, NoMsg)
        /\ last' = [last EXCEPT !.lifetime = <<n>>]
        /\ UNCHANGED <<buf, tamper, result, pc>>

SetSenderId ==
    \E n \in SenderVals :
        /\ frame' = sender_id(frame, n)
        /\ call' = Call("sender_id", n, NoMsg)
        /\ last' = [last EXCEPT !.sender_id = <<n>>]
        /\ UNCHANGED <<buf, tamper, result, pc>>

SetTargetId ==
    \E n \in TargetVals :
        /\ frame' = target_id(frame, n)
        /\ call' = Call("target_id", n, NoMsg)
        /\ last' = [last EXCEPT !.target_id = <<n>>]
        /\ UNCHANGED <<buf, tamper, result, pc>>

SetTick ==
    \E n \in TickVals :
        /\ frame' = tick(frame, n)
        /\ call' = Call("tick", n, NoMsg)
        /\ last' = [last EXCEPT !.tick = <<n>>]
        /\ UNCHANGED <<buf, tamper, result, pc>>

SetUniverse ==
    \E n \in UniverseVals :
        /\ frame' = universe(frame, n)
        /\ call' = Call("universe", n, NoMsg)
        /\ last' = [last EXCEPT !.universe = <<n>>]
        /\ UNCHANGED <<buf, tamper, result, pc>>

RequireConfirmation ==
    /\ frame' = require_confirmation(frame)
    /\ call' = Call("require_confirmation", 0, NoMsg)
    /\ last' = [last EXCEPT !.require_confirmation = TRUE]
    /\ UNCHANGED <<buf, tamper, result, pc>>

Next ==
    \/ New
    \/ JoinRequest
    \/ SetMessage
    \/ SetProtocolMessage
    \/ SetInternalMessage
    \/ SetClientMessage
    \/ SetLifetime
    \/ SetSenderId
    \/ SetTargetId
    \/ SetTick
    \/ SetUniverse
    \/ RequireConfirmation

Spec == Init /\ [][Next]_vars

(***************************************************************************)
(* bincode 1.x, default options of bincode::serialize / deserialize:       *)
(* fixed-width little-endian integers, u64 length prefixes, u32 variant    *)
(* indices, one tag byte for Option and bool, trailing bytes allowed.      *)
(***************************************************************************)
MAGIC == <<76, 69, 68, 115, 119, 97, 114, 109>>    \* "LEDswarm"

MagicLen == 8
TrailerLen == 4

\* Mutant: the two bytes of a u16 in big-endian order.
U16BE(n) == <<(n \div 256) % 256, n % 256>>

U16LE(n) == <<n % 256, (n \div 256) % 256>>
U32LE(n) == U16LE(n % 65536) \o U16LE(n \div 65536)
U64LE(n) == U32LE(n) \o <<0, 0, 0, 0>>

SerString(s) == U64LE(Len(s)) \o s
SerOptionU16(o) == IF o = <<>> THEN <<0>> ELSE <<1>> \o U16LE(o[1])
SerBool(b) == IF b THEN <<1>> ELSE <<0>>

SerHeader(h) ==
    SerString(h.timestamp)
        \o <<h.lifetime>>
        \o SerString(h.message_id)
        \o U16LE(h.sender_id)
        \o SerOptionU16(h.target_id)
        \o SerBool(h.requires_acknowledgement)
        \o U16LE(h.current_tick)
        \o <<h.universe>>
        \o h.ranging_bytes

SerControllerMessage(m) ==
    IF m.v = "JoinRequest" THEN U32LE(0) ELSE U32LE(1) \o U16LE(m.n)

SerProtocolMessage(m) ==
    IF m.v = "Acknowledged" THEN U32LE(0) \o SerString(m.s) ELSE U32LE(1) \o U16LE(m.n)

SerClientMessage(m) ==
    CASE m.v = "SetBrightness" -> U32LE(0) \o m.s
      [] m.v = "StartRound"    -> U32LE(1) \o SerString(m.s)
      [] m.v = "EndRound"      -> U32LE(2)

SerPayload(p) ==
    CASE p.tag = "ControllerMessage" -> U32LE(0) \o SerControllerMessage(p.msg)
      [] p.tag = "ProtocolMessage"   -> U32LE(1) \o SerProtocolMessage(p.msg)
      [] p.tag = "ClientMessage"     -> U32LE(2) \o SerClientMessage(p.msg)
      [] p.tag = "Empty"             -> U32LE(3)

SerFrame(f) == SerHeader(f.header) \o SerPayload(f.payload)

\* Mutant: the trailer is left off.
EncodeNoTrailer(f) == MAGIC \o SerFrame(f)

\* impl From<Frame> for Vec<u8>
Encode(f) == MAGIC \o SerFrame(f) \o f.header.ranging_bytes

(***************************************************************************)
(* core::str::from_utf8: whether a byte string is well-formed UTF-8        *)
(***************************************************************************)
IsCont(b) == b \in 128..191

RECURSIVE Utf8From(_, _)
Utf8From(s, i) ==
    IF i > Len(s) THEN TRUE
    ELSE LET b == s[i]
             has(k) == i + k <= Len(s)
         IN  CASE b < 128 -> Utf8From(s, i + 1)
               [] b \in 194..223 ->
                      has(1) /\ IsCont(s[i + 1]) /\ Utf8From(s, i + 2)
               [] b = 224 ->
                      has(2) /\ s[i + 1] \in 160..191 /\ IsCont(s[i + 2]) /\ Utf8From(s, i + 3)
               [] b \in (225..236) \cup (238..239) ->
                      has(2) /\ IsCont(s[i + 1]) /\ IsCont(s[i + 2]) /\ Utf8From(s, i + 3)
               [] b = 237 ->
                      has(2) /\ s[i + 1] \in 128..159 /\ IsCont(s[i + 2]) /\ Utf8From(s, i + 3)
               [] b = 240 ->
                      has(3) /\ s[i + 1] \in 144..191 /\ IsCont(s[i + 2]) /\ IsCont(s[i + 3])
                             /\ Utf8From(s, i + 4)
               [] b \in 241..243 ->
                      has(3) /\ IsCont(s[i + 1]) /\ IsCont(s[i + 2]) /\ IsCont(s[i + 3])
                             /\ Utf8From(s, i + 4)
               [] b = 244 ->
                      has(3) /\ s[i + 1] \in 128..143 /\ IsCont(s[i + 2]) /\ IsCont(s[i + 3])
                             /\ Utf8From(s, i + 4)
               [] OTHER -> FALSE

ValidUtf8(s) == Utf8From(s, 1)

(***************************************************************************)
(* bincode::deserialize over a byte slice. The reader state is [ok, pos,   *)
(* vals]: whether every read so far succeeded, the position of the next    *)
(* byte, and the values read so far. Each read takes the slice and the     *)
(* state and returns the next state; a failed read yields Bad, and every   *)
(* read of a state that is not ok fails.                                   *)
(***************************************************************************)
Start(p) == [ok |-> TRUE, pos |-> p, vals |-> <<>>]
Bad == [ok |-> FALSE, pos |-> 0, vals |-> <<>>]

\* v was read from n bytes.
Push(st, v, n) == [ok |-> TRUE, pos |-> st.pos + n, vals |-> Append(st.vals, v)]

Top(st) == st.vals[Len(st.vals)]
Pop(st) == [st EXCEPT !.vals = SubSeq(st.vals, 1, Len(st.vals) - 1)]

\* The value read last, replaced by v.
Swap(st, v) == [st EXCEPT !.vals[Len(st.vals)] = v]

Has(b, st, n) == st.ok /\ st.pos + n - 1 <= Len(b)

AllZero(b, from, to) == \A i \in from..to : b[i] = 0

ReadU8(b, st) == IF Has(b, st, 1) THEN Push(st, b[st.pos], 1) ELSE Bad

ReadU16(b, st) ==
    IF Has(b, st, 2) THEN Push(st, b[st.pos] + 256 * b[st.pos + 1], 2) ELSE Bad

\* A u32 variant index; 65536 stands for every value of 65536 and above.
ReadU32(b, st) ==
    IF Has(b, st, 4)
    THEN Push(st, IF AllZero(b, st.pos + 2, st.pos + 3)
                  THEN b[st.pos] + 256 * b[st.pos + 1] ELSE 65536, 4)
    ELSE Bad

\* A u64 length; 65536 stands for every value of 65536 and above.
ReadU64(b, st) ==
    IF Has(b, st, 8)
    THEN Push(st, IF AllZero(b, st.pos + 2, st.pos + 7)
                  THEN b[st.pos] + 256 * b[st.pos + 1] ELSE 65536, 8)
    ELSE Bad

ReadBytes(b, st, n) ==
    IF Has(b, st, n) THEN Push(st, SubSeq(b, st.pos, st.pos + n - 1), n) ELSE Bad

\* Mutant: every non-zero byte reads as true.
ReadBoolLax(b, st) ==
    IF Has(b, st, 1) THEN Push(st, b[st.pos] # 0, 1) ELSE Bad

ReadBool(b, st) ==
    IF Has(b, st, 1) /\ b[st.pos] \in {0, 1} THEN Push(st, b[st.pos] = 1, 1) ELSE Bad

\* The bytes of a string whose length was read last; they must be UTF-8.
StringBody(b, st) ==
    IF st.ok /\ Has(b, st, Top(st)) /\ ValidUtf8(SubSeq(b, st.pos, st.pos + Top(st) - 1))
    THEN [ok   |-> TRUE,
          pos  |-> st.pos + Top(st),
          vals |-> Swap(st, SubSeq(b, st.pos, st.pos + Top(st) - 1)).vals]
    ELSE Bad

ReadString(b, st) == StringBody(b, ReadU64(b, st))

\* st holds Some's value on top of the Option's tag: the two become <<value>>.
Some(st) == IF st.ok THEN Swap(Pop(st), <<Top(st)>>) ELSE Bad

\* The Option whose tag byte was read last.
OptionBody(b, st) ==
    CASE st.ok /\ Top(st) = 0 -> Swap(st, <<>>)
      [] st.ok /\ Top(st) = 1 -> Some(ReadU16(b, st))
      [] OTHER -> Bad

ReadOptionU16(b, st) == OptionBody(b, ReadU8(b, st))

\* The fields of FrameHeader in the order of their declaration.
ReadHeaderFields(b, st) ==
    ReadBytes(b,
        ReadU8(b,
            ReadU16(b,
                ReadBool(b,
                    ReadOptionU16(b,
                        ReadU16(b,
                            ReadString(b,
                                ReadU8(b,
                                    ReadString(b, st)))))))), 4)

\* The nine values read last become one FrameHeader value.
HeaderOf(st) ==
    IF st.ok
    THEN LET n == Len(st.vals) - 9
         IN  [ok   |-> TRUE,
              pos  |-> st.pos,
              vals |-> Append(SubSeq(st.vals, 1, n),
                         [timestamp                |-> st.vals[n + 1],
                          lifetime                 |-> st.vals[n + 2],
                          message_id               |-> st.vals[n + 3],
                          sender_id                |-> st.vals[n + 4],
                          target_id                |-> st.vals[n + 5],
                          requires_acknowledgement |-> st.vals[n + 6],
                          current_tick             |-> st.vals[n + 7],
                          universe                 |-> st.vals[n + 8],
                          ranging_bytes            |-> st.vals[n + 9]])]
    ELSE Bad

DeHeader(b, st) == HeaderOf(ReadHeaderFields(b, st))

\* The variant index read last is dropped; the message takes its place.
Unit(st, v)    == Swap(st, Msg(v, 0, <<>>))
WithU16(st, v) == IF st.ok THEN Swap(Pop(st), Msg(v, Top(st), <<>>)) ELSE Bad
WithStr(st, v) == IF st.ok THEN Swap(Pop(st), Msg(v, 0, Top(st))) ELSE Bad

ControllerBody(b, st) ==
    CASE st.ok /\ Top(st) = 0 -> Unit(st, "JoinRequest")
      [] st.ok /\ Top(st) = 1 -> WithU16(ReadU16(b, st), "JoinResponse")
      [] OTHER -> Bad

DeControllerMessage(b, st) == ControllerBody(b, ReadU32(b, st))

ProtocolBody(b, st) ==
    CASE st.ok /\ Top(st) = 0 -> WithStr(ReadString(b, st), "Acknowledged")
      [] st.ok /\ Top(st) = 1 -> WithU16(ReadU16(b, st), "Tick")
      [] OTHER -> Bad

DeProtocolMessage(b, st) == ProtocolBody(b, ReadU32(b, st))

ClientBody(b, st) ==
    CASE st.ok /\ Top(st) = 0 -> WithStr(ReadBytes(b, st, 4), "SetBrightness")
      [] st.ok /\ Top(st) = 1 -> WithStr(ReadString(b, st), "StartRound")
      [] st.ok /\ Top(st) = 2 -> Unit(st, "EndRound")
      [] OTHER -> Bad

DeClientMessage(b, st) == ClientBody(b, ReadU32(b, st))

\* The message read last, on top of the payload's variant index, becomes the payload.
Tagged(st, tag) == IF st.ok THEN Swap(Pop(st), Payload(tag, Top(st))) ELSE Bad

PayloadBody(b, st) ==
    CASE st.ok /\ Top(st) = 0 -> Tagged(DeControllerMessage(b, st), "ControllerMessage")
      [] st.ok /\ Top(st) = 1 -> Tagged(DeProtocolMessage(b, st), "ProtocolMessage")
      [] st.ok /\ Top(st) = 2 -> Tagged(DeClientMessage(b, st), "ClientMessage")
      [] st.ok /\ Top(st) = 3 -> Swap(st, Empty)
      [] OTHER -> Bad

DePayload(b, st) == PayloadBody(b, ReadU32(b, st))

\* Header and payload, read last, become one Frame value.
FrameOf(st) ==
    IF st.ok
    THEN [ok |-> TRUE, pos |-> st.pos, val |-> [header |-> st.vals[1], payload |-> st.vals[2]]]
    ELSE [ok |-> FALSE, pos |-> 0, val |-> <<>>]

\* bincode::deserialize::<Frame>: bytes left over after the payload are ignored.
DeFrame(b) == FrameOf(DePayload(b, DeHeader(b, Start(1))))

(***************************************************************************)
(* impl TryFrom<Vec<u8>> for Frame                                         *)
(***************************************************************************)
Ok(f)                == [kind |-> "Ok", frame |-> <<f>>, err |-> "", text |-> <<>>]
SerializeError       == [kind |-> "Err", frame |-> <<>>, err |-> "SerializeError", text |-> <<>>]
NoMagicString(text)  == [kind |-> "Err", frame |-> <<>>, err |-> "NoMagicString", text |-> text]
\* A panic: a slice out of range, or unwrap() of a UTF-8 error.
Panic(why)           == [kind |-> "Panic", frame |-> <<>>, err |-> why, text |-> <<>>]

Last4(vec) == SubSeq(vec, Len(vec) - 3, Len(vec))

\* The slice vec[8 .. vec.len() - 4] handed to bincode.
BodyOf(vec) == SubSeq(vec, MagicLen + 1, Len(vec) - TrailerLen)

\* The prefix NoMagicString carries: vec[0 .. 7].
ErrPrefix(vec) == SubSeq(vec, 1, 7)

\* Mutant: the ranging bytes deserialized from the body are kept.
TryFromKeepBody(vec) ==
    IF Len(vec) < MagicLen THEN Panic("slice")
    ELSE IF ~ValidUtf8(SubSeq(vec, 1, MagicLen)) THEN Panic("utf8")
    ELSE IF SubSeq(vec, 1, MagicLen) = MAGIC
         THEN IF Len(vec) - TrailerLen < MagicLen THEN Panic("slice")
              ELSE LET d == DeFrame(BodyOf(vec))
                   IN  IF d.ok THEN Ok(d.val) ELSE SerializeError
         ELSE IF ~ValidUtf8(ErrPrefix(vec)) THEN Panic("utf8")
              ELSE NoMagicString(ErrPrefix(vec))

TryFrom(vec) ==
    IF Len(vec) < MagicLen THEN Panic("slice")
    ELSE IF ~ValidUtf8(SubSeq(vec, 1, MagicLen)) THEN Panic("utf8")
    ELSE IF SubSeq(vec, 1, MagicLen) = MAGIC
         THEN IF Len(vec) - TrailerLen < MagicLen THEN Panic("slice")
              ELSE LET d == DeFrame(BodyOf(vec))
                   IN  IF d.ok
                       THEN Ok([d.val EXCEPT !.header.ranging_bytes = Last4(vec)])
                       ELSE SerializeError
         ELSE IF ~ValidUtf8(ErrPrefix(vec)) THEN Panic("utf8")
              ELSE NoMagicString(ErrPrefix(vec))

(***************************************************************************)
(* The codec as steps: a frame is encoded, the buffer travels (and may be  *)
(* restamped, damaged or cut on the way), and the receiver decodes it.     *)
(***************************************************************************)
\* Headers the builder produces, from all-default to every field set.
BuiltFrames(ts, id) ==
    {new(ts, id),
     join_request(ts, id, 42),
     require_confirmation(sender_id(new(ts, id), 7)),
     universe(tick(target_id(sender_id(lifetime(new(ts, id), 7), 7), 300), 258), 1)}

\* The frames handed to the encoder: a built header, any payload the payload
\* enum declares, any ranging bytes (header.ranging_bytes is a public field).
CodecFrames ==
    {[f EXCEPT !.payload = p, !.header.ranging_bytes = r] :
        f \in UNION {BuiltFrames(ts, id) : ts \in Timestamps, id \in MessageIds},
        p \in FramePayload,
        r \in RangingVals}

\* Bits of a byte that a transmission error inverts.
FlipBits == 0..7

FlipBit(b, k) == IF (b \div (2 ^ k)) % 2 = 1 THEN b - 2 ^ k ELSE b + 2 ^ k

BuilderIdle == call = Call("new", 0, NoMsg) /\ last = NeverCalled

InitCodec ==
    /\ frame \in CodecFrames
    /\ BuilderIdle
    /\ CodecIdle

EncodeFrame ==
    /\ pc = "built"
    /\ buf' = Encode(frame)
    /\ pc' = "wire"
    /\ UNCHANGED <<frame, call, last, tamper, result>>

\* The radio driver stamps live ranging data on the tail of the built buffer.
PatchTrailer ==
    /\ pc = "wire" /\ tamper = "none"
    /\ \E t \in RangingVals : buf' = SubSeq(buf, 1, Len(buf) - TrailerLen) \o t
    /\ tamper' = "trailer"
    /\ UNCHANGED <<frame, call, last, result, pc>>

\* One bit of one byte of the body segment is inverted.
FlipBodyByte ==
    /\ pc = "wire" /\ tamper = "none"
    /\ \E i \in (MagicLen + 1)..(Len(buf) - TrailerLen), k \in FlipBits :
           buf' = [buf EXCEPT ![i] = FlipBit(buf[i], k)]
    /\ tamper' = "flip"
    /\ UNCHANGED <<frame, call, last, result, pc>>

\* The body segment loses its tail; magic prefix and trailer stay.
TruncateBody ==
    /\ pc = "wire" /\ tamper = "none"
    /\ \E n \in 0..(Len(BodyOf(buf)) - 1) :
           buf' = MAGIC \o SubSeq(BodyOf(buf), 1, n) \o Last4(buf)
    /\ tamper' = "truncate"
    /\ UNCHANGED <<frame, call, last, result, pc>>

Decode ==
    /\ pc = "wire"
    /\ result' = TryFrom(buf)
    /\ pc' = "decoded"
    /\ UNCHANGED <<frame, call, last, buf, tamper>>

NextCodec ==
    \/ EncodeFrame
    \/ PatchTrailer
    \/ FlipBodyByte
    \/ TruncateBody
    \/ Decode

SpecCodec == InitCodec /\ [][NextCodec]_vars

(***************************************************************************)
(* The receiver alone: any buffer the radio hands over is decoded.         *)
(***************************************************************************)
Take(s, n) == SubSeq(s, 1, IF n < Len(s) THEN n ELSE Len(s))

ForeignPrefixes ==
    {MAGIC,
     <<88, 69, 68, 115, 119, 97, 114, 109>>,      \* "XEDswarm"
     <<76, 69, 68, 115, 119, 97, 114, 88>>,       \* "LEDswarX"
     <<108, 101, 100, 115, 119, 97, 114, 109>>,   \* "ledswarm"
     <<255, 69, 68, 115, 119, 97, 114, 109>>,     \* not UTF-8 from the first byte
     <<76, 69, 68, 115, 119, 97, 114, 255>>,      \* not UTF-8 in the eighth byte
     <<76, 69, 68, 115, 119, 97, 195, 169>>}      \* UTF-8; its first 7 bytes are not

ForeignTails ==
    {SerFrame(join_request(MkStr(50), MkStr(65), 42)) \o <<1, 2, 3, 4>>,
     <<0, 0, 0, 0, 0, 0, 0, 0, 0, 0, 0, 0, 0, 0, 0, 0>>,
     <<255, 1, 0, 0, 0, 0, 0, 0, 0, 65, 2, 0, 0, 0, 0, 0>>}

ForeignBuffers ==
    {Take(p \o t, n) : p \in ForeignPrefixes, t \in ForeignTails, n \in 0..MaxForeignLen}
        \cup {p \o t : p \in ForeignPrefixes, t \in ForeignTails}

InitDecode ==
    /\ frame = new(MkStr(50), MkStr(65))
    /\ BuilderIdle
    /\ buf \in ForeignBuffers
    /\ tamper = "foreign"
    /\ result = NoResult
    /\ pc = "wire"

NextDecode == Decode

SpecDecode == InitDecode /\ [][NextDecode]_vars

(***************************************************************************)
(* Properties of the builder (specification Spec)                          *)
(***************************************************************************)
\* C8: Frame::join_request(t) yields payload ControllerMessage::JoinRequest,
\* requires_acknowledgement true, target_id Some(0), current_tick t, and every
\* other header field at its Frame::new() default.
C8_JoinRequest ==
    call.op = "join_request" =>
        /\ frame.payload = Payload("ControllerMessage", Msg("JoinRequest", 0, <<>>))
        /\ frame.header.requires_acknowledgement = TRUE
        /\ frame.header.target_id = <<0>>
        /\ frame.header.current_tick = call.n
        /\ frame.header.lifetime = 2
        /\ frame.header.sender_id = 65535
        /\ frame.header.universe = 0
        /\ frame.header.ranging_bytes = <<0, 0, 0, 0>>

C8_Witness == call.op = "join_request" /\ call.n = 42 /\ frame.header.current_tick = 42

PayloadOps == {"message", "protocol_message", "internal_message", "client_message"}

HeaderOps == {"lifetime", "sender_id", "target_id", "tick", "universe", "require_confirmation"}

\* C9: after any sequence of payload mutator calls the payload is the variant
\* of FramePayload that the last call names, carrying its argument; it is Empty
\* if none was called; and a payload mutator leaves the header as the header
\* mutators set it.
C9_PayloadLastCallWins ==
    /\ frame.payload \in FramePayload
    /\ frame.payload = IF last.payload = <<>> THEN Empty ELSE last.payload[1]
    /\ call.op \in PayloadOps =>
           /\ frame.header.lifetime = IF last.lifetime = <<>> THEN 2 ELSE last.lifetime[1]
           /\ frame.header.target_id = last.target_id
           /\ frame.header.requires_acknowledgement = last.require_confirmation
           /\ frame.header.ranging_bytes = <<0, 0, 0, 0>>

\* C10: each of lifetime, sender_id, target_id, current_tick and universe holds
\* the argument of the last call to its own mutator, or its default if never
\* called; requires_acknowledgement is true iff require_confirmation was called,
\* and does not return to false; ranging_bytes stays zero; a header mutator
\* changes neither the payload nor timestamp nor message_id.
C10_HeaderFields ==
    LET h == frame.header
        Now(l, default) == IF l = <<>> THEN default ELSE l[1]
    IN  /\ h.lifetime = Now(last.lifetime, 2)
        /\ h.sender_id = Now(last.sender_id, 65535)
        /\ h.target_id = last.target_id
        /\ h.current_tick = Now(last.tick, 0)
        /\ h.universe = Now(last.universe, 0)
        /\ h.requires_acknowledgement = last.require_confirmation
        /\ h.ranging_bytes = <<0, 0, 0, 0>>

C10_HeaderStep ==
    call'.op \in HeaderOps =>
        /\ frame'.payload = frame.payload
        /\ frame'.header.timestamp = frame.header.timestamp
        /\ frame'.header.message_id = frame.header.message_id
        /\ frame.header.requires_acknowledgement => frame'.header.requires_acknowledgement

C10_HeaderLastWriteWins == []C10_HeaderFields /\ [][C10_HeaderStep]_vars

C10_Witness ==
    /\ last.lifetime = <<7>> /\ frame.header.lifetime = 7
    /\ last.sender_id = <<7>> /\ frame.header.sender_id = 7
    /\ last.target_id = <<300>>
    /\ last.tick = <<42>>
    /\ last.universe = <<0>>
    /\ last.require_confirmation
    /\ call.op = "universe"
    /\ frame.payload # Empty

(***************************************************************************)
(* Properties of the codec (specification SpecCodec)                       *)
(***************************************************************************)
Decoded == result.frame[1]

\* C1: decoding the buffer produced by encoding a frame succeeds and yields a
\* frame equal to it in every header field and the payload, ranging_bytes being
\* the four bytes the frame held when it was encoded.
C1_RoundTrip == (pc = "decoded" /\ tamper = "none") => result = Ok(frame)

C1_Witness ==
    /\ pc = "decoded" /\ tamper = "none" /\ result.kind = "Ok"
    /\ frame.header.ranging_bytes = <<1, 2, 3, 4>>
    /\ frame.header.target_id = <<300>>
    /\ frame.payload.tag = "ClientMessage"

\* Where the body's own copy of ranging_bytes lies in a buffer made from f.
RangingInBody(f) ==
    (MagicLen + Len(SerHeader(f.header)) - 3)..(MagicLen + Len(SerHeader(f.header)))

SameOutside(a, b, skip) ==
    Len(a) = Len(b) /\ \A i \in (1..Len(a)) \ skip : a[i] = b[i]

\* C4 as stated: truncating the body segment of an encoded buffer, or changing
\* a byte inside it, makes decode return SerializeError.
C4_CorruptionDetected ==
    (pc = "decoded" /\ tamper \in {"flip", "truncate"}) => result = SerializeError

\* C4 as amended: a truncated body yields SerializeError; a changed body byte
\* yields SerializeError or Ok, never a panic; the Ok frame carries the trailer
\* and equals the encoded frame only when the changed byte lies in the body's
\* copy of ranging_bytes.
C4_CorruptionOutcome ==
    pc = "decoded" =>
        /\ tamper = "truncate" => result = SerializeError
        /\ tamper = "flip" =>
              \/ result = SerializeError
              \/ /\ result.kind = "Ok"
                 /\ Decoded.header.ranging_bytes = frame.header.ranging_bytes
                 /\ Decoded = frame <=> SameOutside(buf, Encode(frame), RangingInBody(frame))

C4_Witness ==
    /\ pc = "decoded" /\ tamper = "flip" /\ result.kind = "Ok"
    /\ Decoded # frame
    /\ Decoded.header.requires_acknowledgement # frame.header.requires_acknowledgement

\* C5: when decode succeeds the returned ranging_bytes are the buffer's last
\* four bytes, also when the body holds other ones; every other field is the
\* one deserialized from the body.
C5_TrailerAuthoritative ==
    (pc = "decoded" /\ result.kind = "Ok") =>
        /\ Decoded.header.ranging_bytes = Last4(buf)
        /\ tamper \in {"none", "trailer"} =>
               Decoded = [frame EXCEPT !.header.ranging_bytes = Last4(buf)]
        /\ LET body == DeFrame(BodyOf(buf)).val
           IN  [Decoded EXCEPT !.header.ranging_bytes = body.header.ranging_bytes] = body

C5_Witness ==
    /\ pc = "decoded" /\ tamper = "trailer" /\ result.kind = "Ok"
    /\ Last4(buf) # frame.header.ranging_bytes
    /\ Decoded.header.ranging_bytes = <<255, 0, 128, 9>>

\* C6: encode(f) is the 8 bytes "LEDswarm", then the B bytes of the serialized
\* frame (ranging_bytes included), then f.header.ranging_bytes; its length is
\* 8 + B + 4, at least 12.
C6_EncodeLayout ==
    (pc = "wire" /\ tamper = "none") =>
        LET B == Len(SerFrame(frame))
        IN  /\ Len(buf) = 8 + B + 4
            /\ Len(buf) >= 12
            /\ SubSeq(buf, 1, 8) = <<76, 69, 68, 115, 119, 97, 114, 109>>
            /\ SubSeq(buf, 9, 8 + B) = SerFrame(frame)
            /\ DeFrame(SubSeq(buf, 9, 8 + B)).val = frame
            /\ SubSeq(buf, 8 + B + 1, 8 + B + 4) = frame.header.ranging_bytes

C6_Witness ==
    /\ pc = "wire" /\ tamper = "none"
    /\ frame.header.ranging_bytes = <<1, 2, 3, 4>>
    /\ frame.payload.tag = "ProtocolMessage"

(***************************************************************************)
(* Properties of decode on any buffer (specification SpecDecode)           *)
(***************************************************************************)
\* C2: a buffer whose first 8 bytes are not "LEDswarm", valid UTF-8 or not,
\* makes decode return NoMagicString without faulting.
C2_MagicValidation ==
    (pc = "decoded" /\ Len(buf) >= 8 /\ SubSeq(buf, 1, 8) # MAGIC) =>
        (result.kind = "Err" /\ result.err = "NoMagicString")

\* C3: a buffer of 0 to 11 bytes makes decode return a defined error and never
\* fault with an out-of-bounds slice.
C3_MinimumLength ==
    (pc = "decoded" /\ Len(buf) < 12) => result.kind = "Err"

\* C7: a NoMagicString error carries the text of the buffer's bytes [0, 8).
C7_NoMagicCarriesPrefix ==
    (pc = "decoded" /\ result.err = "NoMagicString") => result.text = SubSeq(buf, 1, 8)

====
